---- MODULE Spec2Model ----
(***************************************************************************)
(* A model of httpx/_urlparse.py: urlparse, ParseResult (authority,        *)
(* netloc, copy_with, __str__), encode_host, normalize_port,               *)
(* validate_absolute_path, normalize_path, percent_encode and quote.       *)
(*                                                                         *)
(* A Python str is a sequence of characters; a character is a              *)
(* one-character TLA+ string ("\t" is the tab), except NONASCII, which     *)
(* stands for U+00E9.  An Optional value is None (the empty tuple) or      *)
(* Some(x) (the one-element tuple).  A function that may raise returns     *)
(* Ok(v) or Raise(exc, msg).                                               *)
(***************************************************************************)
EXTENDS Integers, Sequences, FiniteSets, TLC

VARIABLES pc, url, kwargs, result, overrides, derived, qin, qsafe, qout, qout2

vars == <<pc, url, kwargs, result, overrides, derived, qin, qsafe, qout, qout2>>

None == <<>>
Some(x) == <<x>>
Ok(v) == [ok |-> TRUE, v |-> v]
Raise(exc, msg) == [ok |-> FALSE, exc |-> exc, msg |-> msg]

----------------------------------------------------------------------------
(* Characters *)

NONASCII == "U+00E9"
\* the grave accent, 0x60
GRAVE == "U+0060"

\* The printable ASCII characters, 0x20 .. 0x7E, in code order.
Printable ==
  <<" ", "!", "\"", "#", "$", "%", "&", "'", "(", ")", "*", "+", ",", "-", ".", "/",
    "0", "1", "2", "3", "4", "5", "6", "7", "8", "9", ":", ";", "<", "=", ">", "?",
    "@", "A", "B", "C", "D", "E", "F", "G", "H", "I", "J", "K", "L", "M", "N", "O",
    "P", "Q", "R", "S", "T", "U", "V", "W", "X", "Y", "Z", "[", "\\", "]", "^", "_",
    GRAVE, "a", "b", "c", "d", "e", "f", "g", "h", "i", "j", "k", "l", "m", "n", "o",
    "p", "q", "r", "s", "t", "u", "v", "w", "x", "y", "z", "{", "|", "}", "~">>

PrintableSet == {Printable[i] : i \in 1..Len(Printable)}
ControlSet == {"\t", "\n", "\r"}

\* ord(char) of an ASCII character
OrdTable ==
  [c \in PrintableSet \cup ControlSet |->
     CASE c = "\t" -> 9
       [] c = "\n" -> 10
       [] c = "\r" -> 13
       [] OTHER -> 31 + (CHOOSE i \in 1..Len(Printable) : Printable[i] = c)]

Ord(c) == OrdTable[c]

\* char.encode("utf-8")
Utf8(c) == IF c = NONASCII THEN <<195, 169>> ELSE <<Ord(c)>>

\* char.isascii() and not char.isprintable()
IsControl(c) == c \in ControlSet

Digits == {"0", "1", "2", "3", "4", "5", "6", "7", "8", "9"}
UpperSeq ==
  <<"A", "B", "C", "D", "E", "F", "G", "H", "I", "J", "K", "L", "M",
    "N", "O", "P", "Q", "R", "S", "T", "U", "V", "W", "X", "Y", "Z">>
LowerSeq ==
  <<"a", "b", "c", "d", "e", "f", "g", "h", "i", "j", "k", "l", "m",
    "n", "o", "p", "q", "r", "s", "t", "u", "v", "w", "x", "y", "z">>
UpperSet == {UpperSeq[i] : i \in 1..Len(UpperSeq)}
LowerSet == {LowerSeq[i] : i \in 1..Len(LowerSeq)}
Letters == UpperSet \cup LowerSet
HexSeq == <<"0", "1", "2", "3", "4", "5", "6", "7", "8", "9", "A", "B", "C", "D", "E", "F">>
HexDigitSet == Digits \cup {"A", "B", "C", "D", "E", "F", "a", "b", "c", "d", "e", "f"}

LowerTable ==
  [c \in UpperSet |-> LowerSeq[CHOOSE i \in 1..Len(UpperSeq) : UpperSeq[i] = c]]

\* str.lower()
lower(s) == [i \in 1..Len(s) |-> IF s[i] \in UpperSet THEN LowerTable[s[i]] ELSE s[i]]

----------------------------------------------------------------------------
(* String helpers *)

Take(s, n) == SubSeq(s, 1, n)
Drop(s, n) == SubSeq(s, n + 1, Len(s))
Min(I) == CHOOSE i \in I : \A j \in I : i <= j
Max(I) == CHOOSE i \in I : \A j \in I : i >= j

\* index of the first character of s that is in C (Len(s) + 1 when there is none)
FirstIn(s, C) ==
  LET I == {i \in 1..Len(s) : s[i] \in C} IN IF I = {} THEN Len(s) + 1 ELSE Min(I)

\* index of the first character of s that is not in C (Len(s) + 1 when there is none)
FirstNotIn(s, C) ==
  LET I == {i \in 1..Len(s) : s[i] \notin C} IN IF I = {} THEN Len(s) + 1 ELSE Min(I)

Contains(s, c) == \E i \in 1..Len(s) : s[i] = c
StartsWith(s, p) == Len(s) >= Len(p) /\ Take(s, Len(p)) = p
EndsWith(s, p) == Len(s) >= Len(p) /\ Drop(s, Len(s) - Len(p)) = p

\* str.partition(sep) for a one-character sep: <<head, found, tail>>
partition(s, sep) ==
  LET i == FirstIn(s, {sep}) IN
    IF i > Len(s) THEN <<s, FALSE, <<>>>> ELSE <<Take(s, i - 1), TRUE, Drop(s, i)>>

\* str.split(sep) for a one-character sep
RECURSIVE split(_, _)
split(s, sep) ==
  LET i == FirstIn(s, {sep}) IN
    IF i > Len(s) THEN <<s>> ELSE <<Take(s, i - 1)>> \o split(Drop(s, i), sep)

\* sep.join(parts)
RECURSIVE join(_, _)
join(sep, parts) ==
  IF parts = <<>> THEN <<>>
  ELSE IF Len(parts) = 1 THEN parts[1]
  ELSE parts[1] \o sep \o join(sep, Tail(parts))

\* str.strip(), for the whitespace of the alphabet of the model
RECURSIVE strip(_)
strip(s) ==
  IF s # <<>> /\ s[1] = " " THEN strip(Tail(s))
  ELSE IF s # <<>> /\ s[Len(s)] = " " THEN strip(Take(s, Len(s) - 1))
  ELSE s

DigitVal(c) == Ord(c) - 48

\* the value of a run of decimal digits
RECURSIVE DecVal(_)
DecVal(ds) ==
  IF ds = <<>> THEN 0 ELSE 10 * DecVal(Take(ds, Len(ds) - 1)) + DigitVal(ds[Len(ds)])

\* str(n) of an integer
RECURSIVE NatToStr(_)
NatToStr(n) ==
  IF n < 10 THEN <<Printable[17 + n]>> ELSE NatToStr(n \div 10) \o <<Printable[17 + (n % 10)]>>

IntToStr(n) == IF n < 0 THEN <<"-">> \o NatToStr(-n) ELSE NatToStr(n)

\* the digits of an int literal: not empty, decimal digits with single
\* underscores between them
IsIntBody(body) ==
  /\ body # <<>>
  /\ \A i \in 1..Len(body) : body[i] \in Digits \cup {"_"}
  /\ body[1] # "_" /\ body[Len(body)] # "_"
  /\ \A i \in 1..(Len(body) - 1) : ~(body[i] = "_" /\ body[i + 1] = "_")

IntBodyVal(body) == DecVal(SelectSeq(body, LAMBDA c : c # "_"))

\* int(t) of a stripped t: one optional sign, then the digits
SignedInt(t) ==
  IF t # <<>> /\ t[1] \in {"+", "-"}
  THEN (IF ~IsIntBody(Tail(t)) THEN Raise("ValueError", "invalid literal for int()")
        ELSE Ok(IF t[1] = "-" THEN -IntBodyVal(Tail(t)) ELSE IntBodyVal(Tail(t))))
  ELSE (IF ~IsIntBody(t) THEN Raise("ValueError", "invalid literal for int()")
        ELSE Ok(IntBodyVal(t)))

\* int(s): surrounding whitespace is stripped
PyInt(s) == SignedInt(strip(s))

----------------------------------------------------------------------------
(* Percent-encoding *)

MAX_URL_LENGTH == 65536

UNRESERVED_CHARACTERS == Letters \cup Digits \cup {"-", ".", "_", "~"}
SUB_DELIMS == {"!", "$", "&", "'", "(", ")", "*", "+", ",", ";", "="}

Hex2(b) == <<HexSeq[(b \div 16) + 1], HexSeq[(b % 16) + 1]>>

RECURSIVE EncodeBytes(_)
EncodeBytes(bs) ==
  IF bs = <<>> THEN <<>> ELSE <<"%">> \o Hex2(bs[1]) \o EncodeBytes(Tail(bs))

percent_encode(char) == EncodeBytes(Utf8(char))

\* string.count("%")
CountPercent(s) == Cardinality({i \in 1..Len(s) : s[i] = "%"})

\* len(PERCENT_ENCODED_REGEX.findall(string)): non-overlapping matches of
\* %[A-Fa-f0-9]{2}, scanning from the left
RECURSIVE CountEscapes(_)
CountEscapes(s) ==
  IF Len(s) < 3 THEN 0
  ELSE IF s[1] = "%" /\ s[2] \in HexDigitSet /\ s[3] \in HexDigitSet
       THEN 1 + CountEscapes(Drop(s, 3))
       ELSE CountEscapes(Tail(s))

RECURSIVE EncodeExcept(_, _)
EncodeExcept(s, keep) ==
  IF s = <<>> THEN <<>>
  ELSE (IF s[1] \in keep THEN <<s[1]>> ELSE percent_encode(s[1]))
       \o EncodeExcept(Tail(s), keep)

\* quote without the test for existing escapes: "%" is always encoded
quote_always_encode(string, safe) == EncodeExcept(string, UNRESERVED_CHARACTERS \cup safe)

quote(string, safe) ==
  LET base == UNRESERVED_CHARACTERS \cup safe
      NON_ESCAPED_CHARS ==
        IF CountPercent(string) = CountEscapes(string) THEN base \cup {"%"} ELSE base
  IN EncodeExcept(string, NON_ESCAPED_CHARS)

----------------------------------------------------------------------------
(* Host, port and path normalization *)

\* ipaddress.IPv4Address(s) does not raise: four decimal octets, each of one
\* to three ASCII digits, without a leading zero, at most 255
IPv4Address(s) ==
  LET octets == split(s, ".") IN
    /\ Len(octets) = 4
    /\ \A i \in 1..4 :
         LET o == octets[i] IN
           /\ o # <<>>
           /\ \A j \in 1..Len(o) : o[j] \in Digits
           /\ Len(o) <= 3
           /\ (Len(o) > 1 => o[1] # "0")
           /\ DecVal(o) <= 255

IsHextet(h) == h # <<>> /\ Len(h) <= 4 /\ \A i \in 1..Len(h) : h[i] \in HexDigitSet

\* the hextets on both sides of the "::" at parts[k]
IPv6Skipped(parts, n, k) ==
  LET hi == IF parts[1] = <<>> THEN k - 2 ELSE k - 1
      lo == IF parts[n] = <<>> THEN n - k - 1 ELSE n - k
  IN /\ (parts[1] = <<>> => hi = 0)
     /\ (parts[n] = <<>> => lo = 0)
     /\ 8 - (hi + lo) >= 1
     /\ \A i \in 1..hi : IsHextet(parts[i])
     /\ \A i \in (n - lo + 1)..n : IsHextet(parts[i])

\* the parts between the colons, an IPv4 tail already replaced by two hextets
IPv6Parts(parts, n, skips) ==
  /\ n <= 9
  /\ Cardinality(skips) <= 1
  /\ IF skips # {}
     THEN IPv6Skipped(parts, n, CHOOSE i \in skips : TRUE)
     ELSE n = 8 /\ \A i \in 1..n : IsHextet(parts[i])

IPv6Split(parts0, last) ==
  /\ Len(parts0) >= 3
  /\ IF Contains(last, ".")
     THEN /\ IPv4Address(last)
          /\ IPv6Parts(Take(parts0, Len(parts0) - 1) \o <<<<"0">>, <<"0">>>>,
                       Len(parts0) + 1,
                       {i \in 2..Len(parts0) : i < Len(parts0) /\ parts0[i] = <<>>})
     ELSE IPv6Parts(parts0, Len(parts0),
                    {i \in 2..(Len(parts0) - 1) : parts0[i] = <<>>})

\* ipaddress.IPv6Address._ip_int_from_string(a) does not raise
IPv6Hextets(a) == a # <<>> /\ IPv6Split(split(a, ":"), split(a, ":")[Len(split(a, ":"))])

\* ipaddress.IPv6Address(s) does not raise: no "/", an optional "%scope" whose
\* scope is not empty and holds no "%", and a well-formed address before it
IPv6Address(s) ==
  LET p == partition(s, "%") IN
    /\ ~Contains(s, "/")
    /\ (p[2] => (p[3] # <<>> /\ ~Contains(p[3], "%")))
    /\ IPv6Hextets(p[1])

\* IPv4_STYLE_HOSTNAME.match(host): ^[0-9]+.[0-9]+.[0-9]+.[0-9]+$ where the
\* unescaped "." stands for any one character
IPv4_STYLE_HOSTNAME(host) ==
  LET n == Len(host)
      digits(a, b) == a <= b /\ \A x \in a..b : host[x] \in Digits
  IN \E i \in 2..n : \E j \in (i + 2)..n : \E k \in (j + 2)..n :
       /\ digits(1, i - 1)
       /\ digits(i + 1, j - 1)
       /\ digits(j + 1, k - 1)
       /\ digits(k + 1, n)

\* IPv6_STYLE_HOSTNAME.match(host): ^\[.*\]$
IPv6_STYLE_HOSTNAME(host) == Len(host) >= 2 /\ host[1] = "[" /\ host[Len(host)] = "]"

\* the ACE form idna gives a label that holds U+00E9
PunycodeTable ==
  [l \in {<<NONASCII>>, <<"a", NONASCII>>, <<NONASCII, "a">>, <<NONASCII, NONASCII>>} |->
     CASE l = <<NONASCII>> -> <<"x", "n", "-", "-", "9", "c", "a">>
       [] l = <<"a", NONASCII>> -> <<"x", "n", "-", "-", "a", "-", "b", "g", "a">>
       [] l = <<NONASCII, "a">> -> <<"x", "n", "-", "-", "a", "-", "9", "f", "a">>
       [] OTHER -> <<"x", "n", "-", "-", "9", "c", "a", "a">>]

\* idna.alabel(label) does not raise
IdnaLabelOk(l) ==
  /\ l # <<>>
  /\ \A i \in 1..Len(l) : l[i] \in LowerSet \cup Digits \cup {"-", NONASCII}
  /\ l[1] # "-" /\ l[Len(l)] # "-"
  /\ ~(Len(l) >= 4 /\ l[3] = "-" /\ l[4] = "-")

alabel(l) == IF Contains(l, NONASCII) THEN PunycodeTable[l] ELSE l

IdnaLabels(labels, trailing) ==
  IF \E i \in 1..Len(labels) : ~IdnaLabelOk(labels[i])
  THEN Raise("InvalidURL", "Invalid IDNA hostname")
  ELSE Ok(join(<<".">>, [i \in 1..Len(labels) |-> alabel(labels[i])])
          \o (IF trailing THEN <<".">> ELSE <<>>))

IdnaSplit(labels0) ==
  IF Len(labels0) > 1 /\ labels0[Len(labels0)] = <<>>
  THEN IdnaLabels(Take(labels0, Len(labels0) - 1), TRUE)
  ELSE IdnaLabels(labels0, FALSE)

\* idna.encode(host).decode("ascii"); a trailing dot ends the last label
idna_encode(host) == IdnaSplit(split(host, "."))

encode_host(host) ==
  IF host = <<>> THEN Ok(<<>>)
  ELSE IF IPv4_STYLE_HOSTNAME(host)
  THEN IF IPv4Address(host) THEN Ok(host) ELSE Raise("InvalidURL", "Invalid IPv4 address")
  ELSE IF IPv6_STYLE_HOSTNAME(host)
  THEN IF IPv6Address(SubSeq(host, 2, Len(host) - 1))
       THEN Ok(SubSeq(host, 2, Len(host) - 1))
       ELSE Raise("InvalidURL", "Invalid IPv6 address")
  ELSE IF \A i \in 1..Len(host) : host[i] # NONASCII
  THEN Ok(quote(lower(host), SUB_DELIMS))
  ELSE idna_encode(lower(host))

\* {"ftp": 21, "http": 80, "https": 443, "ws": 80, "wss": 443}.get(scheme)
default_port(scheme) ==
  CASE scheme = <<"f", "t", "p">> -> Some(21)
    [] scheme = <<"h", "t", "t", "p">> -> Some(80)
    [] scheme = <<"h", "t", "t", "p", "s">> -> Some(443)
    [] scheme = <<"w", "s">> -> Some(80)
    [] scheme = <<"w", "s", "s">> -> Some(443)
    [] OTHER -> None

\* port is None or Some(string); the result is an Optional integer
normalize_port(port, scheme) ==
  IF port = None \/ port = Some(<<>>) THEN Ok(None)
  ELSE LET port_as_int == PyInt(port[1]) IN
         IF ~port_as_int.ok THEN Raise("InvalidURL", "Invalid port")
         ELSE IF Some(port_as_int.v) = default_port(scheme) THEN Ok(None)
         ELSE Ok(Some(port_as_int.v))

\* validate_absolute_path that accepts every path
validate_absolute_path_any(path) == Ok(None)

validate_absolute_path(path) ==
  IF path # <<>> /\ ~StartsWith(path, <<"/">>)
  THEN Raise("InvalidURL", "For absolute URLs, path must be empty or begin with '/'")
  ELSE Ok(None)

\* the loop of normalize_path over the components still to read
RECURSIVE DropDotSegments(_, _)
DropDotSegments(components, output) ==
  IF components = <<>> THEN output
  ELSE LET component == components[1] IN
         DropDotSegments(
           Tail(components),
           IF component = <<".">> THEN output
           ELSE IF component = <<".", ".">>
           THEN (IF output # <<>> /\ output # <<<<>>>>
                 THEN Take(output, Len(output) - 1)
                 ELSE output)
           ELSE Append(output, component))

normalize_path(path) == join(<<"/">>, DropDotSegments(split(path, "/"), <<>>))

----------------------------------------------------------------------------
(* Keyword arguments: a dict is the sequence of its items [k, v] in          *)
(* insertion order; a value is None, a str or (for "port") an int.          *)

NoneV == [t |-> "none"]
StrV(s) == [t |-> "str", s |-> s]
IntV(n) == [t |-> "int", n |-> n]

\* value or ""
OrEmpty(v) == IF v.t = "str" THEN v.s ELSE <<>>
\* an Optional[str] value as None / Some(s), and back
Opt(v) == IF v.t = "str" THEN Some(v.s) ELSE None
Val(o) == IF o = None THEN NoneV ELSE StrV(o[1])

Keys(kw) == {kw[i].k : i \in 1..Len(kw)}
Get(kw, key, default) ==
  IF key \in Keys(kw) THEN kw[CHOOSE i \in 1..Len(kw) : kw[i].k = key].v ELSE default
Pop(kw, key) == SelectSeq(kw, LAMBDA e : e.k # key)
Set(kw, key, v) ==
  IF key \in Keys(kw)
  THEN [i \in 1..Len(kw) |-> IF kw[i].k = key THEN [k |-> key, v |-> v] ELSE kw[i]]
  ELSE Append(kw, [k |-> key, v |-> v])

\* dict.update(other)
RECURSIVE Update(_, _)
Update(kw, other) ==
  IF other = <<>> THEN kw ELSE Update(Set(kw, other[1].k, other[1].v), Tail(other))

----------------------------------------------------------------------------
(* The grammar *)

SchemeChars == Letters \cup Digits \cup {"+", ".", "-"}

\* (?:#(?P<fragment>.*))?
MatchFragment(scheme, authority_, path, query, r) ==
  [scheme |-> scheme,
   authority |-> authority_,
   path |-> path,
   query |-> query,
   fragment |-> IF r # <<>> /\ r[1] = "#" THEN StrV(Tail(r)) ELSE NoneV]

\* the query group with an empty match taken for no match
MatchQuery_empty_absent(scheme, authority_, path, r) ==
  IF r # <<>> /\ r[1] = "?" /\ FirstIn(r, {"#"}) > 2
  THEN MatchFragment(scheme, authority_, path,
                     StrV(SubSeq(r, 2, FirstIn(r, {"#"}) - 1)),
                     Drop(r, FirstIn(r, {"#"}) - 1))
  ELSE MatchFragment(scheme, authority_, path, NoneV,
                     IF r # <<>> /\ r[1] = "?" THEN Tail(r) ELSE r)

\* (?:\?(?P<query>[^#]*))?
MatchQuery(scheme, authority_, path, r) ==
  IF r # <<>> /\ r[1] = "?"
  THEN MatchFragment(scheme, authority_, path,
                     StrV(SubSeq(r, 2, FirstIn(r, {"#"}) - 1)),
                     Drop(r, FirstIn(r, {"#"}) - 1))
  ELSE MatchFragment(scheme, authority_, path, NoneV, r)

\* (?P<path>[^?#]*)
MatchPath(scheme, authority_, r) ==
  MatchQuery(scheme, authority_,
             StrV(Take(r, FirstIn(r, {"?", "#"}) - 1)),
             Drop(r, FirstIn(r, {"?", "#"}) - 1))

\* (?://(?P<authority>[^/?#]*))?
MatchAuthority(scheme, r) ==
  IF StartsWith(r, <<"/", "/">>)
  THEN MatchPath(scheme,
                 StrV(SubSeq(r, 3, FirstIn(Drop(r, 2), {"/", "?", "#"}) + 1)),
                 Drop(r, FirstIn(Drop(r, 2), {"/", "?", "#"}) + 1))
  ELSE MatchPath(scheme, NoneV, r)

\* (?:(?P<scheme>[a-zA-Z][a-zA-Z0-9+.-]*):)?  n is where the scheme characters end
MatchScheme(u, n) ==
  IF u # <<>> /\ u[1] \in Letters /\ n <= Len(u) /\ u[n] = ":"
  THEN MatchAuthority(StrV(Take(u, n - 1)), Drop(u, n))
  ELSE MatchAuthority(NoneV, u)

\* URL_REGEX.match(url).groupdict(): an unmatched group is None
URL_REGEX(u) == MatchScheme(u, FirstNotIn(u, SchemeChars))

\* :?(?P<port>.*)?
MatchPort(userinfo, host, r) ==
  [userinfo |-> userinfo,
   host |-> host,
   port |-> StrV(IF r # <<>> /\ r[1] = ":" THEN Tail(r) ELSE r)]

\* (?P<host>(\[.*\]|[^:]*))  closing holds the places of the "]" after r[1]
MatchHost(userinfo, r, closing) ==
  IF r # <<>> /\ r[1] = "[" /\ closing # {}
  THEN MatchPort(userinfo, StrV(Take(r, Max(closing))), Drop(r, Max(closing)))
  ELSE MatchPort(userinfo, StrV(Take(r, FirstIn(r, {":"}) - 1)),
                 Drop(r, FirstIn(r, {":"}) - 1))

\* (?:(?P<userinfo>[^@]*)@)?  at is the place of the first "@"
MatchUserinfo(a, at) ==
  IF at <= Len(a)
  THEN MatchHost(StrV(Take(a, at - 1)), Drop(a, at),
                 {i \in 2..(Len(a) - at) : a[at + i] = "]"})
  ELSE MatchHost(NoneV, a, {i \in 2..Len(a) : a[i] = "]"})

\* AUTHORITY_REGEX.match(authority).groupdict()
AUTHORITY_REGEX(a) == MatchUserinfo(a, FirstIn(a, {"@"}))

COMPONENTS == {"scheme", "authority", "path", "query", "fragment", "userinfo", "host", "port"}

\* COMPONENT_REGEX[key].fullmatch(value)
COMPONENT_REGEX(key, value) ==
  CASE key = "scheme" ->
         value = <<>> \/ (value[1] \in Letters /\ FirstNotIn(value, SchemeChars) > Len(value))
    [] key = "authority" -> FirstIn(value, {"/", "?", "#"}) > Len(value)
    [] key = "path" -> FirstIn(value, {"?", "#"}) > Len(value)
    [] key = "query" -> ~Contains(value, "#")
    [] key = "fragment" -> ~Contains(value, "\n")
    [] key = "userinfo" -> ~Contains(value, "@")
    [] key = "host" -> IPv6_STYLE_HOSTNAME(value) \/ ~Contains(value, ":")
    [] key = "port" -> ~Contains(value, "\n")

----------------------------------------------------------------------------
(* urlparse *)

HasControl(s) == \E i \in 1..Len(s) : IsControl(s[i])

\* Coerce "port" to a string, if it is provided as an integer.
CoercePort(kw) ==
  IF "port" \in Keys(kw) /\ Get(kw, "port", NoneV).t = "int"
  THEN Set(kw, "port", StrV(IntToStr(Get(kw, "port", NoneV).n)))
  ELSE kw

\* Replace "netloc" with "host" and "port".
ReplaceNetloc(kw) ==
  IF "netloc" \in Keys(kw)
  THEN LET netloc == partition(OrEmpty(Get(kw, "netloc", NoneV)), ":") IN
         Set(Set(Pop(kw, "netloc"), "host", StrV(netloc[1])), "port", StrV(netloc[3]))
  ELSE kw

\* Replace "username" and/or "password" with "userinfo".
ReplaceUsernamePassword(kw) ==
  IF "username" \in Keys(kw) \/ "password" \in Keys(kw)
  THEN LET username == quote(OrEmpty(Get(kw, "username", StrV(<<>>))), {"/"})
           password == quote(OrEmpty(Get(kw, "password", StrV(<<>>))), {"/"})
       IN Set(Pop(Pop(kw, "username"), "password"), "userinfo",
              StrV(IF password # <<>> THEN username \o <<":">> \o password ELSE username))
  ELSE kw

\* Replace "full_path" with "path" and "query".
ReplaceFullPath(kw) ==
  IF "full_path" \in Keys(kw)
  THEN LET full_path == partition(OrEmpty(Get(kw, "full_path", NoneV)), "?") IN
         Set(Set(Pop(kw, "full_path"), "path", StrV(full_path[1])), "query",
             IF full_path[2] THEN StrV(full_path[3]) ELSE NoneV)
  ELSE kw

\* Ensure that IPv6 "host" addresses are always escaped with "[...]".
BracketHost(kw) ==
  IF "host" \in Keys(kw)
  THEN LET host == OrEmpty(Get(kw, "host", NoneV)) IN
         IF Contains(host, ":") /\ ~(StartsWith(host, <<"[">>) /\ EndsWith(host, <<"]">>))
         THEN Set(kw, "host", StrV(<<"[">> \o host \o <<"]">>))
         ELSE kw
  ELSE kw

\* the turn of the loop without the test for non-printable characters
CheckItem_no_control_test(e) ==
  IF e.k \notin COMPONENTS
  THEN Some(Raise("TypeError", "invalid keyword argument for urlparse()"))
  ELSE IF e.v.t = "none" THEN None
  ELSE IF Len(e.v.s) > MAX_URL_LENGTH
  THEN Some(Raise("InvalidURL", "URL component too long"))
  ELSE IF ~COMPONENT_REGEX(e.k, e.v.s)
  THEN Some(Raise("InvalidURL", "Invalid URL component"))
  ELSE None

\* one turn of the loop over kwargs.items(): None, or Some(what it raises)
CheckItem(e) ==
  IF e.k \notin COMPONENTS
  THEN Some(Raise("TypeError", "invalid keyword argument for urlparse()"))
  ELSE IF e.v.t = "none" THEN None
  ELSE IF Len(e.v.s) > MAX_URL_LENGTH
  THEN Some(Raise("InvalidURL", "URL component too long"))
  ELSE IF HasControl(e.v.s)
  THEN Some(Raise("InvalidURL", "Invalid non-printable ASCII character in URL component"))
  ELSE IF ~COMPONENT_REGEX(e.k, e.v.s)
  THEN Some(Raise("InvalidURL", "Invalid URL component"))
  ELSE None

\* the loop over kwargs.items(): the first item that raises decides
CheckKwargs(kw) ==
  LET bad == {i \in 1..Len(kw) : CheckItem(kw[i]) # None} IN
    IF bad = {} THEN None ELSE CheckItem(kw[Min(bad)])

\* lines 272-280: the ParseResult, unless a component raised
Construct(scheme, userinfo, parsed_host, parsed_port, valid, path, query, fragment) ==
  IF ~parsed_host.ok THEN parsed_host
  ELSE IF ~parsed_port.ok THEN parsed_port
  ELSE IF ~valid.ok THEN valid
  ELSE Ok([scheme |-> lower(scheme),
           userinfo |-> quote(userinfo, SUB_DELIMS \cup {":"}),
           host |-> parsed_host.v,
           port |-> parsed_port.v,
           path |-> quote(path, SUB_DELIMS \cup {":", "@", "/"}),
           query |-> IF query = None THEN None
                     ELSE Some(quote(query[1], SUB_DELIMS \cup {"/", "?"})),
           fragment |-> IF fragment = None THEN None
                        ELSE Some(quote(fragment[1], SUB_DELIMS \cup {"/", "?"}))])

\* line 259: if userinfo or host or port
IsAbsolute(m) == m.userinfo # <<>> \/ m.host # <<>> \/ (m.port # None /\ m.port # Some(<<>>))

\* lines 255-268: normalize and validate each component of the merged m
NormalizeComponents(m) ==
  IF IsAbsolute(m)
  THEN Construct(m.scheme, m.userinfo, encode_host(m.host), normalize_port(m.port, m.scheme),
                 validate_absolute_path(m.path), normalize_path(m.path), m.query, m.fragment)
  ELSE Construct(m.scheme, m.userinfo, encode_host(m.host), normalize_port(m.port, m.scheme),
                 Ok(None), m.path, m.query, m.fragment)

\* lines 235-250: each component, from the keyword arguments or else from the
\* URL's groups and its authority's groups
MergeAuthority(kw, url_dict, authority_dict) ==
  [scheme |-> OrEmpty(Get(kw, "scheme", url_dict.scheme)),
   userinfo |-> OrEmpty(Get(kw, "userinfo", authority_dict.userinfo)),
   host |-> OrEmpty(Get(kw, "host", authority_dict.host)),
   port |-> Opt(Get(kw, "port", authority_dict.port)),
   path |-> OrEmpty(Get(kw, "path", url_dict.path)),
   query |-> Opt(Get(kw, "query", url_dict.query)),
   fragment |-> Opt(Get(kw, "fragment", url_dict.fragment))]

MergeUrl(kw, url_dict) ==
  MergeAuthority(kw, url_dict,
                 AUTHORITY_REGEX(OrEmpty(Get(kw, "authority", url_dict.authority))))

\* lines 166-192: the keyword arguments that require special handling
SpecialHandling(kwargs_) ==
  BracketHost(ReplaceFullPath(ReplaceUsernamePassword(ReplaceNetloc(CoercePort(kwargs_)))))

\* lines 197-280: kw is kwargs after the special handling
ValidateAndParse(u, kw, raised) ==
  IF raised # None THEN raised[1] ELSE NormalizeComponents(MergeUrl(kw, URL_REGEX(u)))

urlparse(u, kwargs_) ==
  IF Len(u) > MAX_URL_LENGTH THEN Raise("InvalidURL", "URL too long")
  ELSE IF HasControl(u)
  THEN Raise("InvalidURL", "Invalid non-printable ASCII character in URL")
  ELSE ValidateAndParse(u, SpecialHandling(kwargs_), CheckKwargs(SpecialHandling(kwargs_)))

----------------------------------------------------------------------------
(* ParseResult *)

HostPort(r) ==
  (IF Contains(r.host, ":") THEN <<"[">> \o r.host \o <<"]">> ELSE r.host)
  \o (IF r.port # None THEN <<":">> \o IntToStr(r.port[1]) ELSE <<>>)

authority(r) == (IF r.userinfo # <<>> THEN r.userinfo \o <<"@">> ELSE <<>>) \o HostPort(r)

netloc(r) == HostPort(r)

\* ParseResult.__str__
to_str(r) ==
  (IF r.scheme # <<>> THEN r.scheme \o <<":">> ELSE <<>>)
  \o (IF authority(r) # <<>> THEN <<"/", "/">> \o authority(r) ELSE <<>>)
  \o r.path
  \o (IF r.query # None THEN <<"?">> \o r.query[1] ELSE <<>>)
  \o (IF r.fragment # None THEN <<"#">> \o r.fragment[1] ELSE <<>>)

copy_with(r, kwargs_) ==
  IF kwargs_ = <<>> THEN Ok(r)
  ELSE LET defaults ==
             <<[k |-> "scheme", v |-> StrV(r.scheme)],
               [k |-> "authority", v |-> StrV(authority(r))],
               [k |-> "path", v |-> StrV(r.path)],
               [k |-> "query", v |-> Val(r.query)],
               [k |-> "fragment", v |-> Val(r.fragment)]>>
       IN urlparse(<<>>, Update(defaults, kwargs_))

----------------------------------------------------------------------------
(* The calls the model makes *)

MaxUrlLen == 3
MaxQuoteLen == 4

\* the strings over alphabet A of length at most n
RECURSIVE Strings(_, _)
Strings(A, n) ==
  IF n = 0 THEN {<<>>}
  ELSE LET shorter == Strings(A, n - 1) IN
         shorter \cup {Append(t, c) : t \in shorter, c \in A}

UrlAlphabet == {"a", "1", ":", "/", "?", "#", "@", "."}
ShortUrls == Strings(UrlAlphabet, MaxUrlLen)

SchemeParts == {<<>>,
               <<"w", "s", ":">>,
               <<"W", "S", ":">>,
               <<"h", "t", "t", "p", "s", ":">>}
AuthorityParts ==
  {<<>>,
   <<"/", "/">>,
   <<"/", "/", "a">>,
   <<"/", "/", "a", ":", "8", "0">>,
   <<"/", "/", "a", ":", "4", "4", "3">>,
   <<"/", "/", "a", ":", "8", "1">>,
   <<"/", "/", "u", "@", "a">>,
   <<"/", "/", "A", "<", "b">>,
   <<"/", "/", "1", ".", "2", ".", "3", ".", "4">>,
   <<"/", "/", "1", "a", "2", "b", "3", "c", "4">>,
   <<"/", "/", "[", ":", ":", "1", "]">>,
   <<"/", "/", "[", ":", ":", "%", "]", "]">>,
   <<"/", "/", "a", ":", "-", "1">>,
   <<"/", "/", "a", ":", "0">>,
   <<"/", "/", NONASCII>>}
PathParts ==
  {<<>>,
   <<"/">>,
   <<"/", ".", ".">>,
   <<"/", "a", "/", ".", "/", "b", "/", ".", ".">>,
   <<"/", "/", "x">>,
   <<"/", "a", " ", "b">>,
   <<"/", "%", "4">>}
TailParts == {<<>>,
             <<"?">>,
             <<"#">>,
             <<"?", "q", "=", "1", "#", "f">>}

ComposedUrls ==
  {s \o a \o p \o t : s \in SchemeParts, a \in AuthorityParts, p \in PathParts, t \in TailParts}

\* URL strings that hold a control character
ControlUrls == {<<"\t">>, <<"a", "\n", "b">>, <<"/", "/", "a", "/", "\r">>}

Urls == ShortUrls \cup ComposedUrls \cup ControlUrls

\* the values tried for each keyword argument
KeywordValues(key) ==
  CASE key = "scheme" ->
         {StrV(<<>>), StrV(<<"w", "s">>), StrV(<<"W", "S">>), StrV(<<"1", "a">>), StrV(<<"a", "\t">>), NoneV}
    [] key = "authority" ->
         {StrV(<<>>), StrV(<<"a">>), StrV(<<"u", "@", "H", ":", "8", "0">>), StrV(<<"a", "/", "b">>), StrV(<<"a", "\n">>), NoneV}
    [] key = "path" ->
         {StrV(<<>>), StrV(<<"/">>), StrV(<<"y">>), StrV(<<"/", "a", "/", ".", ".", "/", "b">>), StrV(<<"/", "/", "x">>), StrV(<<"a", ":", "b">>), StrV(<<"a", "?", "b">>), StrV(<<"/", "\t">>), NoneV}
    [] key = "query" ->
         {StrV(<<>>), StrV(<<"q">>), StrV(<<"a", "#", "b">>), StrV(<<"\r">>), NoneV}
    [] key = "fragment" ->
         {StrV(<<>>), StrV(<<"f">>), StrV(<<"\n">>), NoneV}
    [] key = "userinfo" ->
         {StrV(<<>>), StrV(<<"u", ":", "p">>), StrV(<<"a", "@", "b">>), StrV(<<"\t">>), NoneV}
    [] key = "host" ->
         {StrV(<<>>), StrV(<<"x">>), StrV(<<":", ":", "1">>), StrV(<<"[", ":", ":", "1", "]">>), StrV(<<"a", "/", "b">>), StrV(<<"[", ":", ":", "1", "%", "?", "]">>), StrV(<<"[", ":", ":", "1", "%", "#", "]">>), StrV(<<"1", "a", "2", "b", "3", "c", "4">>), StrV(<<"a", "\t", "b">>), NoneV}
    [] key = "port" ->
         {StrV(<<>>), StrV(<<"8", "0">>), IntV(80), IntV(0), StrV(<<"x">>), StrV(<<"8", "\t">>), NoneV}
    [] key = "netloc" ->
         {StrV(<<>>), StrV(<<"a", ":", "8", "0">>), StrV(<<"a", "\t", "b">>), NoneV}
    [] key = "username" ->
         {StrV(<<"u">>), StrV(<<"a", "\t", "b">>), StrV(<<"a", "@", "b">>), NoneV}
    [] key = "password" ->
         {StrV(<<"p">>), StrV(<<"\n">>), NoneV}
    [] key = "full_path" ->
         {StrV(<<"/", "a", "?", "b">>), StrV(<<"x">>), StrV(<<"/", "x">>), StrV(<<"/", "a", "\t">>), NoneV}
    [] key = "bogus" ->
         {StrV(<<"1">>)}

KeywordNames ==
  {"scheme", "authority", "path", "query", "fragment", "userinfo", "host", "port",
   "netloc", "username", "password", "full_path", "bogus"}

KeywordPairs ==
  {<<"host", "path">>, <<"scheme", "port">>, <<"username", "password">>,
   <<"port", "path">>, <<"userinfo", "path">>, <<"path", "bogus">>, <<"bogus", "path">>}

Kwargs ==
  UNION {{<<[k |-> key, v |-> v]>> : v \in KeywordValues(key)} : key \in KeywordNames}
  \cup UNION {{<<[k |-> kp[1], v |-> v1], [k |-> kp[2], v |-> v2]>> :
                 v1 \in KeywordValues(kp[1]), v2 \in KeywordValues(kp[2])} : kp \in KeywordPairs}

\* the URL strings the keyword arguments are combined with
BaseUrls == {<<>>,
             <<"w", "s", ":", "/", "/", "u", "@", "h", ":", "8", "1", "/", "p", "?", "q", "#", "f">>}

\* the overrides given to copy_with
Overrides ==
  {<<>>,
   <<[k |-> "path", v |-> StrV(<<"/", "n", "e", "w">>)]>>,
   <<[k |-> "scheme", v |-> StrV(<<"h", "t", "t", "p", "s">>)]>>,
   <<[k |-> "host", v |-> StrV(<<"x">>)]>>,
   <<[k |-> "port", v |-> IntV(80)]>>,
   <<[k |-> "query", v |-> NoneV]>>,
   <<[k |-> "fragment", v |-> StrV(<<>>)]>>,
   <<[k |-> "username", v |-> StrV(<<"v">>)]>>,
   <<[k |-> "path", v |-> StrV(<<"y">>)], [k |-> "query", v |-> StrV(<<"z">>)]>>}

QuoteAlphabet == {"%", "4", "g", " ", "/", NONASCII}
QuoteStrings == Strings(QuoteAlphabet, MaxQuoteLen)
SafeSets == {{"/"}, {}, SUB_DELIMS \cup {":", "@", "/"}, {"%"}}

----------------------------------------------------------------------------
(* The state machine: one call of urlparse, then either a parse of the       *)
(* result's string or a copy_with on it; or one call of quote, then a       *)
(* second one on what it returned.                                          *)

Unset == [ok |-> FALSE, exc |-> "", msg |-> ""]

Init ==
  /\ pc = "start"
  /\ url = <<>>
  /\ kwargs = <<>>
  /\ result = Unset
  /\ overrides = <<>>
  /\ derived = Unset
  /\ qin = <<>>
  /\ qsafe = {}
  /\ qout = <<>>
  /\ qout2 = <<>>

\* urlparse(u)
ParseUrl ==
  /\ pc = "start"
  /\ \E u \in Urls :
       /\ url' = u
       /\ kwargs' = <<>>
       /\ result' = urlparse(u, <<>>)
  /\ pc' = "parsed"
  /\ UNCHANGED <<overrides, derived, qin, qsafe, qout, qout2>>

\* urlparse(u, **kw)
ParseComponents ==
  /\ pc = "start"
  /\ \E u \in BaseUrls, kw \in Kwargs :
       /\ url' = u
       /\ kwargs' = kw
       /\ result' = urlparse(u, kw)
  /\ pc' = "parsed"
  /\ UNCHANGED <<overrides, derived, qin, qsafe, qout, qout2>>

\* urlparse(str(result))
Reparse ==
  /\ pc = "parsed"
  /\ result.ok
  /\ derived' = urlparse(to_str(result.v), <<>>)
  /\ pc' = "reparsed"
  /\ UNCHANGED <<url, kwargs, result, overrides, qin, qsafe, qout, qout2>>

\* result.copy_with(**ov)
CopyWith ==
  /\ pc = "parsed"
  /\ result.ok
  /\ \E ov \in Overrides :
       /\ overrides' = ov
       /\ derived' = copy_with(result.v, ov)
  /\ pc' = "copied"
  /\ UNCHANGED <<url, kwargs, result, qin, qsafe, qout, qout2>>

\* quote(s, safe)
Quote ==
  /\ pc = "start"
  /\ \E s \in QuoteStrings, safe \in SafeSets :
       /\ qin' = s
       /\ qsafe' = safe
       /\ qout' = quote(s, safe)
  /\ pc' = "quoted"
  /\ UNCHANGED <<url, kwargs, result, overrides, derived, qout2>>

\* quote(quote(s, safe), safe)
Requote ==
  /\ pc = "quoted"
  /\ qout2' = quote(qout, qsafe)
  /\ pc' = "requoted"
  /\ UNCHANGED <<url, kwargs, result, overrides, derived, qin, qsafe, qout>>

Next == ParseUrl \/ ParseComponents \/ Reparse \/ CopyWith \/ Quote \/ Requote

Spec == Init /\ [][Next]_vars

----------------------------------------------------------------------------
(* Properties *)

\* the ParseResults that the calls made so far have returned
Returned == {x.v : x \in {y \in {result, derived} : y.ok}}

\* every "%" of s starts a %XX escape and every other character is in allowed
WellEncoded(s, allowed) ==
  /\ CountPercent(s) = CountEscapes(s)
  /\ \A i \in 1..Len(s) : s[i] \in allowed \cup {"%"}

\* C4: quote is idempotent: quoting the output of quote again, with the same
\* safe set, returns it unchanged; and a string that is already fully encoded
\* (only allowed characters, every "%" followed by two hex digits) is returned
\* by quote unchanged.
C4_QuoteIdempotent ==
  /\ pc = "requoted" => qout2 = qout
  /\ (pc \in {"quoted", "requoted"} /\ WellEncoded(qin, UNRESERVED_CHARACTERS \cup qsafe))
       => qout = qin

\* a string with a "%" that quote had to change has been quoted twice
C4_Witness ==
  /\ pc = "requoted"
  /\ Contains(qin, "%")
  /\ qout # qin
  /\ "%" \notin qsafe

\* C2: the port of every returned ParseResult is absent or an integer >= 1
\* that is not the default port of the result's (lower-cased) scheme,
\* whatever the case of the scheme in the input.
C2_PortNormalForm ==
  \A r \in Returned :
    r.port = None \/ (r.port[1] >= 1 /\ r.port # default_port(r.scheme))

\* the components the first call merged from its keyword arguments and its URL
Merged == MergeUrl(SpecialHandling(kwargs), URL_REGEX(url))

\* the first call got as far as merging its components
Validated ==
  /\ pc # "start"
  /\ ~HasControl(url)
  /\ CheckKwargs(SpecialHandling(kwargs)) = None

\* four runs of digits separated by "."
DottedQuad(h) ==
  /\ Len(split(h, ".")) = 4
  /\ \A i \in 1..4 : split(h, ".")[i] # <<>> /\ FirstNotIn(split(h, ".")[i], Digits) > Len(split(h, ".")[i])

\* C10: only a host of dotted-quad shape is validated as an IPv4 literal;
\* every other non-empty, all-ASCII, non-bracketed host is never rejected by
\* the host encoding and is stored lower-cased and percent-encoded with the
\* unreserved characters and the sub-delimiters as safe set.
C10_HostFamilyDispatch ==
  (/\ Validated
   /\ Merged.host # <<>>
   /\ ~Contains(Merged.host, NONASCII)
   /\ ~IPv6_STYLE_HOSTNAME(Merged.host)
   /\ ~DottedQuad(Merged.host))
  => /\ ~result.ok =>
          result.msg \notin {"Invalid IPv4 address", "Invalid IPv6 address", "Invalid IDNA hostname"}
     /\ result.ok => result.v.host = quote(lower(Merged.host), SUB_DELIMS)

\* RFC 3986 section 5.2.4 on the segments that follow the leading "/"
RECURSIVE remove_dot_segments_of(_, _)
remove_dot_segments_of(segments, output) ==
  IF segments = <<>> THEN output
  ELSE IF Head(segments) = <<".">>
  THEN remove_dot_segments_of(Tail(segments),
                              IF Len(segments) = 1 THEN Append(output, <<>>) ELSE output)
  ELSE IF Head(segments) = <<".", ".">>
  THEN remove_dot_segments_of(Tail(segments),
                              IF Len(segments) = 1
                              THEN Append(Take(output, Len(output) - 1), <<>>)
                              ELSE Take(output, Len(output) - 1))
  ELSE remove_dot_segments_of(Tail(segments), Append(output, Head(segments)))

\* RFC 3986 section 5.2.4 for a path that begins with "/"
remove_dot_segments(path) ==
  <<"/">> \o join(<<"/">>, remove_dot_segments_of(Tail(split(path, "/")), <<>>))

\* s without one trailing "/" other than the leading one
WithoutTrailingSlash(s) == IF Len(s) > 1 /\ s[Len(s)] = "/" THEN Take(s, Len(s) - 1) ELSE s

\* C5: for an authority-bearing URL whose path begins with "/", the stored
\* path is the result of RFC 3986 section 5.2.4 dot-segment removal (as in
\* the example "/path/./to/somewhere/.." -> "/path/to", a trailing "/" left
\* by a final dot segment is not counted), has no segment equal to "." or
\* "..", and is never popped below the root: it still begins with "/", so
\* that "/.." is stored as "/".
C5_DotSegmentRemoval ==
  (/\ Validated
   /\ result.ok
   /\ IsAbsolute(Merged)
   /\ StartsWith(Merged.path, <<"/">>))
  => /\ StartsWith(result.v.path, <<"/">>)
     /\ \A i \in 1..Len(split(result.v.path, "/")) :
          split(result.v.path, "/")[i] \notin {<<".">>, <<".", ".">>}
     /\ result.v.path \in
          {quote(remove_dot_segments(Merged.path), SUB_DELIMS \cup {":", "@", "/"}),
           quote(WithoutTrailingSlash(remove_dot_segments(Merged.path)),
                 SUB_DELIMS \cup {":", "@", "/"})}

\* C1: for every ParseResult r that a successful urlparse call returned,
\* urlparse(str(r)) succeeds and returns a ParseResult equal to r in all
\* seven fields.
C1_RoundTrip == pc = "reparsed" => derived.ok /\ derived.v = result.v

\* C3: every field of every returned ParseResult holds only printable ASCII
\* characters of its component's allowed set (the unreserved characters, the
\* component's safe set, and "%" only as the start of a %XX escape); in
\* particular the host never holds "/", "?", "#", "@", "[" or "]" unescaped.
\* The ":" of an IPv6 literal, which is stored without its brackets, is taken
\* as allowed in the host.
C3_FieldCharacters ==
  \A r \in Returned :
    /\ \A i \in 1..Len(r.scheme) : r.scheme[i] \in SchemeChars
    /\ WellEncoded(r.userinfo, UNRESERVED_CHARACTERS \cup SUB_DELIMS \cup {":"})
    /\ WellEncoded(r.host, UNRESERVED_CHARACTERS \cup SUB_DELIMS \cup {":"})
    /\ \A c \in {"/", "?", "#", "@", "[", "]"} : ~Contains(r.host, c)
    /\ WellEncoded(r.path, UNRESERVED_CHARACTERS \cup SUB_DELIMS \cup {":", "@", "/"})
    /\ r.query # None =>
         WellEncoded(r.query[1], UNRESERVED_CHARACTERS \cup SUB_DELIMS \cup {"/", "?"})
    /\ r.fragment # None =>
         WellEncoded(r.fragment[1], UNRESERVED_CHARACTERS \cup SUB_DELIMS \cup {"/", "?"})

\* the fields of a ParseResult that a keyword argument names
FieldsNamed(key) ==
  CASE key = "authority" -> {"userinfo", "host", "port"}
    [] key = "netloc" -> {"host", "port"}
    [] key \in {"username", "password"} -> {"userinfo"}
    [] key = "full_path" -> {"path", "query"}
    [] OTHER -> {key}

\* C7: for a parsed ParseResult r and a non-empty set of overrides for which
\* copy_with succeeds, every field of the new result whose component the
\* overrides do not name equals the same field of r. Stated for the overrides
\* that name only path, query or fragment, on which no other component's
\* normal form depends.
C7_CopyWithPreserves ==
  (/\ pc = "copied"
   /\ overrides # <<>>
   /\ Keys(overrides) \subseteq {"path", "query", "fragment"}
   /\ derived.ok)
  => \A f \in {"scheme", "userinfo", "host", "port", "path", "query", "fragment"}
            \ UNION {FieldsNamed(key) : key \in Keys(overrides)} :
       derived.v[f] = result.v[f]

\* C6: in every returned ParseResult whose authority is non-empty the path is
\* empty or begins with "/"; and a call whose merged components have a
\* non-empty userinfo, host or port and a non-empty path that does not begin
\* with "/" fails with InvalidURL and returns no result.
C6_AbsolutePathRule ==
  /\ \A r \in Returned :
       authority(r) # <<>> => (r.path = <<>> \/ r.path[1] = "/")
  /\ (/\ Validated
      /\ IsAbsolute(Merged)
      /\ Merged.path # <<>>
      /\ Merged.path[1] # "/")
     => ~result.ok /\ result.exc = "InvalidURL"

\* the call urlparse("", host="x", path="y") has been rejected for its path
C6_Witness ==
  /\ pc = "parsed"
  /\ url = <<>>
  /\ kwargs = <<[k |-> "host", v |-> StrV(<<"x">>)], [k |-> "path", v |-> StrV(<<"y">>)]>>
  /\ ~result.ok
  /\ result.msg = "For absolute URLs, path must be empty or begin with '/'"

\* the keyword arguments, out of keys, whose value holds a control character
WithControl(keys) ==
  {i \in 1..Len(kwargs) :
     kwargs[i].k \in keys /\ kwargs[i].v.t = "str" /\ HasControl(kwargs[i].v.s)}

C9_QueryFragmentTriState ==
  /\ (pc # "start" /\ kwargs = <<>> /\ result.ok)
     => /\ result.v.query = None <=> ~Contains(Take(url, FirstIn(url, {"#"}) - 1), "?")
        /\ result.v.fragment = None <=> ~Contains(url, "#")
        /\ (url # <<>> /\ FirstIn(url, {"?", "#"}) = Len(url) /\ url[Len(url)] = "?")
             => result.v.query = Some(<<>>)
        /\ (url # <<>> /\ FirstIn(url, {"#"}) = Len(url))
             => result.v.fragment = Some(<<>>)
  /\ \A r \in Returned :
       /\ to_str([r EXCEPT !.query = None]) # to_str([r EXCEPT !.query = Some(<<>>)])
       /\ to_str([r EXCEPT !.fragment = None]) # to_str([r EXCEPT !.fragment = Some(<<>>)])
       /\ to_str(r) = to_str([r EXCEPT !.query = None, !.fragment = None])
                       \o (IF r.query # None THEN <<"?">> \o r.query[1] ELSE <<>>)
                       \o (IF r.fragment # None THEN <<"#">> \o r.fragment[1] ELSE <<>>)
  /\ (pc = "reparsed" /\ derived.ok)
     => /\ derived.v.query = None <=> result.v.query = None
        /\ derived.v.fragment = None <=> result.v.fragment = None

\* a URL that ends with a bare "?" has been parsed: its query is present and
\* empty, its fragment absent
C9_Witness ==
  /\ pc = "parsed"
  /\ kwargs = <<>>
  /\ Len(url) > 1
  /\ url[Len(url)] = "?"
  /\ result.ok
  /\ result.v.query = Some(<<>>)
  /\ result.v.fragment = None

====
